---- MODULE Spec2Model ----
(***************************************************************************)
(* LogUp permutation argument of core/src/stark/permutation.rs:            *)
(* generate_interaction_rlc_elements, populate_permutation_row,            *)
(* generate_permutation_trace and eval_permutation_constraints.            *)
(*                                                                         *)
(* The code is generic in F: PrimeField and EF: ExtensionField<F>.  The    *)
(* model instantiates F = GF(P) and EF = F[X]/(X^2 - W), an element of EF  *)
(* being the pair <<a, b>> for a + b*X.                                    *)
(***************************************************************************)
EXTENDS Integers, Sequences, FiniteSets, Bags, TLC

\* ---------------------------------------------------------------- bounds
MaxSends == 2
MaxReceives == 1
MaxBatch == 3
MaxHeight == 3

\* ---------------------------------------------------------------- fields
P == 7
W == 3

F == 0 .. (P - 1)
EF == F \X F

Zero == <<0, 0>>
One == <<1, 0>>

FNeg(a) == (P - a) % P

RECURSIVE FPow(_, _)
FPow(a, e) == IF e = 0 THEN 1 ELSE (a * FPow(a, e - 1)) % P

\* try_inverse of the base field: a^(P-2)
FInv(a) == FPow(a, P - 2)

FromBase(a) == <<a, 0>>

EAdd(x, y) == <<(x[1] + y[1]) % P, (x[2] + y[2]) % P>>

\* faulty variant: the operands of the subtraction are exchanged
ESubSwapped(x, y) == <<(y[1] + P - x[1]) % P, (y[2] + P - x[2]) % P>>

ESub(x, y) == <<(x[1] + P - y[1]) % P, (x[2] + P - y[2]) % P>>

EMul(x, y) == <<(x[1] * y[1] + W * x[2] * y[2]) % P, (x[1] * y[2] + x[2] * y[1]) % P>>

\* EF * F, the product of an extension element with a base element
EScale(x, a) == <<(x[1] * a) % P, (x[2] * a) % P>>

\* inverse of a + b*X: (a - b*X) / (a^2 - W*b^2)
EInv(x) ==
    LET norm == (x[1] * x[1] + (P - W) * x[2] * x[2]) % P
        ninv == FInv(norm)
    IN  <<(x[1] * ninv) % P, (FNeg(x[2]) * ninv) % P>>

\* Div of the field: self * rhs.inverse(); inverse() panics on zero, which the
\* caller models through HasZeroDenominator
EDiv(x, y) == EMul(x, EInv(y))

RECURSIVE ESum(_)
ESum(s) == IF s = <<>> THEN Zero ELSE EAdd(Head(s), ESum(Tail(s)))

\* random_element.powers().skip(skip).take(n): the iterator starts at one and
\* multiplies by the base at every step
RECURSIVE PowersFrom(_, _, _, _)
PowersFrom(base, current, skip, n) ==
    IF skip > 0 THEN PowersFrom(base, EMul(current, base), skip - 1, n)
    ELSE IF n = 0 THEN <<>>
    ELSE <<current>> \o PowersFrom(base, EMul(current, base), 0, n - 1)

\* ---------------------------------------------------------------- inputs
Min(a, b) == IF a < b THEN a ELSE b

SeqsUpTo(S, n) == UNION {[1 .. k -> S] : k \in 0 .. n}

\* a VirtualPairCol: one preprocessed or main column, or a constant
MainCol(i) == [kind |-> "main", idx |-> i, constant |-> 0]
PrepCol(i) == [kind |-> "prep", idx |-> i, constant |-> 0]
ConstCol(c) == [kind |-> "const", idx |-> 0, constant |-> c % P]

\* faulty variant: the constant term of the column expression is dropped
ApplyNoConstant(col, preprocessed_row, main_row) ==
    IF col.kind = "main" THEN main_row[col.idx]
    ELSE IF col.kind = "prep" THEN preprocessed_row[col.idx]
    ELSE 0

\* VirtualPairCol::apply(preprocessed_row, main_row)
Apply(col, preprocessed_row, main_row) ==
    IF col.kind = "main" THEN main_row[col.idx]
    ELSE IF col.kind = "prep" THEN preprocessed_row[col.idx]
    ELSE col.constant

IA == [values |-> <<ConstCol(5)>>, multiplicity |-> ConstCol(1), argument_index |-> 0]
IB == [values |-> <<MainCol(1), PrepCol(1)>>, multiplicity |-> MainCol(2), argument_index |-> 2]
IC == [values |-> <<MainCol(1)>>, multiplicity |-> ConstCol(1), argument_index |-> 1]

SendPool == {IA, IB, IC}
ReceivePool == {IA, IC}

UsesMain(ints) ==
    \E i \in 1 .. Len(ints) :
        \/ ints[i].multiplicity.kind = "main"
        \/ \E k \in 1 .. Len(ints[i].values) : ints[i].values[k].kind = "main"

UsesPrep(ints) == \E i \in 1 .. Len(ints) : \E k \in 1 .. Len(ints[i].values) : ints[i].values[k].kind = "prep"

MainRow(r) == <<(5 * r) % P, r % P>>
PrepRow(r) == <<(3 * r + 1) % P>>

MainTrace(h) == [r \in 1 .. h |-> MainRow(r)]
PrepTrace(h) == [r \in 1 .. h |-> PrepRow(r)]

\* Option<&RowMajorMatrix<F>>
None == <<"None">>

\* the challenge pairs [alpha, beta] the transcript may supply
Challenges == {<<<<5, 0>>, <<3, 1>>>>, <<<<1, 2>>, <<0, 3>>>>}

\* ---------------------------------------------------------------- state
VARIABLES
    sends, receives, preprocessed, main, random_elements, batch_size,
    pc, alphas, permutation_trace, populated, denominators,
    row_sums, splits, local_scans, cumulative_sums, eval_alphas, failed,
    tampered,
    overflow_checks, mem_cols, new_blu_events, mem_pc, mem_call,
    input, output, curve, done, rows, new_byte_lookup_events, gen_pc,
    public_values_stream, public_values_stream_ptr, buf, io_call, received,
    precompile_events, pre_call,
    fip_a, fip_b, fip_cols, fip_pc, fip_return

inputs == <<sends, receives, preprocessed, main, random_elements, batch_size>>
vars == <<sends, receives, preprocessed, main, random_elements, batch_size,
          pc, alphas, permutation_trace, populated, denominators,
          row_sums, splits, local_scans, cumulative_sums, eval_alphas, failed,
          tampered,
          overflow_checks, mem_cols, new_blu_events, mem_pc, mem_call,
          input, output, curve, done, rows, new_byte_lookup_events, gen_pc,
          public_values_stream, public_values_stream_ptr, buf, io_call, received,
          precompile_events, pre_call,
          fip_a, fip_b, fip_cols, fip_pc, fip_return>>

\* the runtime's public values stream and its reader
io == <<public_values_stream, public_values_stream_ptr, buf, io_call, received>>

\* two PrecompileEvents records and the last call made on them
pre == <<precompile_events, pre_call>>

\* one FieldInnerProductCols and the operands of its populate
fip == <<fip_a, fip_b, fip_cols, fip_pc, fip_return>>

\* the memory columns under population and the buffer the calls push to
mem == <<mem_cols, new_blu_events, mem_pc, mem_call>>

\* one chip's trace generation and the records it reads and writes
gen == <<input, output, curve, done, rows, new_byte_lookup_events, gen_pc>>

\* the permutation argument of one chip
permutation == <<sends, receives, preprocessed, main, random_elements, batch_size,
                 pc, alphas, permutation_trace, populated, denominators,
                 row_sums, splits, local_scans, cumulative_sums, eval_alphas, failed,
                 tampered>>

\* the state the permutation argument's own steps never touch
others == <<tampered, overflow_checks, mem, gen, io, pre, fip>>

\* no call made yet
NoCall == [fn |-> "None", cols |-> "None", record |-> <<>>]

\* no memory column is being populated
MemIdle ==
    /\ mem_cols = <<>>
    /\ new_blu_events = <<>>
    /\ mem_pc = "idle"
    /\ mem_call = NoCall

\* no chip is generating its trace
GenIdle ==
    /\ input = <<>>
    /\ output = EmptyBag
    /\ curve = None
    /\ done = <<>>
    /\ rows = <<>>
    /\ new_byte_lookup_events = <<>>
    /\ gen_pc = "idle"

\* no public value is being read
IoIdle ==
    /\ public_values_stream = <<>>
    /\ public_values_stream_ptr = 0
    /\ buf = <<>>
    /\ io_call = [fn |-> "None"]
    /\ received = <<>>

\* no precompile event record is in use
PreIdle ==
    /\ precompile_events = <<>>
    /\ pre_call = [fn |-> "None"]

\* no inner product is being populated
FipIdle ==
    /\ fip_a = <<>>
    /\ fip_b = <<>>
    /\ fip_cols = <<>>
    /\ fip_pc = "idle"
    /\ fip_return = 0

\* no permutation trace is being generated
PermutationIdle ==
    /\ sends = <<>>
    /\ receives = <<>>
    /\ preprocessed = None
    /\ main = <<>>
    /\ random_elements = <<Zero, Zero>>
    /\ batch_size = 1
    /\ pc = "idle"
    /\ alphas = <<>>
    /\ permutation_trace = <<>>
    /\ populated = {}
    /\ denominators = <<>>
    /\ row_sums = <<>>
    /\ splits = <<>>
    /\ local_scans = <<>>
    /\ cumulative_sums = <<>>
    /\ eval_alphas = <<>>
    /\ failed = {}
    /\ tampered = <<>>

Height == Len(main)
NumInteractions == Len(sends) + Len(receives)

Init ==
    /\ sends \in SeqsUpTo(SendPool, MaxSends)
    /\ receives \in SeqsUpTo(ReceivePool, MaxReceives)
    /\ batch_size \in 1 .. MaxBatch
    /\ \E h \in 1 .. MaxHeight :
          /\ main = MainTrace(h)
          /\ preprocessed \in {None, PrepTrace(h)}
    /\ (preprocessed = None) => ~UsesPrep(sends \o receives)
    /\ random_elements \in Challenges
    /\ pc = "start"
    /\ alphas = <<>>
    /\ permutation_trace = <<>>
    /\ populated = {}
    /\ denominators = <<>>
    /\ row_sums = <<>>
    /\ splits = <<>>
    /\ local_scans = <<>>
    /\ cumulative_sums = <<>>
    /\ eval_alphas = <<>>
    /\ failed = {}
    /\ tampered = <<>>
    /\ overflow_checks = FALSE
    /\ MemIdle
    /\ GenIdle
    /\ IoIdle
    /\ PreIdle
    /\ FipIdle

\* ------------------------------------------ generate_interaction_rlc_elements
RECURSIVE MaxArgumentIndex(_)
MaxArgumentIndex(ints) ==
    IF ints = <<>> THEN 0
    ELSE LET m == MaxArgumentIndex(Tail(ints))
         IN  IF Head(ints).argument_index > m THEN Head(ints).argument_index ELSE m

\* faulty variant: the powers are taken without skip(1)
GenerateInteractionRlcElementsNoSkip(s, r, random_element) ==
    PowersFrom(random_element, One, 0, MaxArgumentIndex(s \o r) + 1)

\* faulty variant: one power more than max + 1 is taken
GenerateInteractionRlcElementsExtra(s, r, random_element) ==
    PowersFrom(random_element, One, 1, MaxArgumentIndex(s \o r) + 2)

\* faulty variant: the powers are assigned from the chip's largest channel downwards
GenerateInteractionRlcElementsReversed(s, r, random_element) ==
    LET n == MaxArgumentIndex(s \o r) + 1
        ps == PowersFrom(random_element, One, 1, n)
    IN  [k \in 1 .. n |-> ps[n + 1 - k]]

\* faulty variant: the + 1 after the maximum is missing
GenerateInteractionRlcElementsShort(s, r, random_element) ==
    PowersFrom(random_element, One, 1, MaxArgumentIndex(s \o r))

GenerateInteractionRlcElements(s, r, random_element) ==
    LET n == MaxArgumentIndex(s \o r) + 1
    IN  PowersFrom(random_element, One, 1, n)

\* ------------------------------------------------- populate_permutation_row
\* sends tagged true chained with receives tagged false
Tagged(s, r) ==
    [i \in 1 .. Len(s) |-> [interaction |-> s[i], is_send |-> TRUE]]
    \o [i \in 1 .. Len(r) |-> [interaction |-> r[i], is_send |-> FALSE]]

\* Itertools::chunks(batch_size)
RECURSIVE Chunks(_, _)
Chunks(seq, b) ==
    IF seq = <<>> THEN <<>>
    ELSE LET k == Min(b, Len(seq))
         IN  <<SubSeq(seq, 1, k)>> \o Chunks(SubSeq(seq, k + 1, Len(seq)), b)

PermutationTraceWidth(s, r, b) == (Len(s) + Len(r) + 1) \div b + 1

\* the loop over interaction.values zipped with the powers of beta
RECURSIVE FoldValues(_, _, _, _, _, _)
FoldValues(values, betaPow, beta, acc, preprocessed_row, main_row) ==
    IF values = <<>> THEN acc
    ELSE FoldValues(Tail(values), EMul(betaPow, beta), beta,
                    EAdd(acc, EScale(betaPow, Apply(Head(values), preprocessed_row, main_row))),
                    preprocessed_row, main_row)

\* faulty variant: the first value is weighted by beta instead of one
DenominatorBetaFromOne(interaction, als, beta, preprocessed_row, main_row) ==
    FoldValues(interaction.values, beta, beta, als[interaction.argument_index + 1],
               preprocessed_row, main_row)

Denominator(interaction, als, beta, preprocessed_row, main_row) ==
    FoldValues(interaction.values, One, beta, als[interaction.argument_index + 1],
               preprocessed_row, main_row)

\* faulty variant: the multiplicity of a receive is not negated
SignedMultiplicityNoNeg(t, preprocessed_row, main_row) ==
    Apply(t.interaction.multiplicity, preprocessed_row, main_row)

SignedMultiplicity(t, preprocessed_row, main_row) ==
    LET mult == Apply(t.interaction.multiplicity, preprocessed_row, main_row)
    IN  IF t.is_send THEN mult ELSE FNeg(mult)

\* the closure of the map over one chunk, summed
ChunkValue(chunk, als, beta, preprocessed_row, main_row) ==
    ESum([i \in 1 .. Len(chunk) |->
            EDiv(FromBase(SignedMultiplicity(chunk[i], preprocessed_row, main_row)),
                 Denominator(chunk[i].interaction, als, beta, preprocessed_row, main_row))])

\* row.iter_mut().zip(interaction_chunks): cell j takes chunk j while both last
PopulatePermutationRow(row, preprocessed_row, main_row, s, r, als, beta, b) ==
    LET chunks == Chunks(Tagged(s, r), b)
    IN  [j \in 1 .. Len(row) |->
            IF j <= Len(chunks)
            THEN ChunkValue(chunks[j], als, beta, preprocessed_row, main_row)
            ELSE row[j]]

\* the denominators the row's chunks divide by, in declaration order, as far as
\* the zip reaches
RowDenominators(width, preprocessed_row, main_row, s, r, als, beta, b) ==
    LET t == Tagged(s, r)
        reached == Min(Len(t), width * b)
    IN  [i \in 1 .. reached |->
            Denominator(t[i].interaction, als, beta, preprocessed_row, main_row)]

\* faulty variant: the inverse of zero does not panic
HasZeroDenominatorNever(dens) == FALSE

\* Field::inverse panics with "Tried to invert zero"
HasZeroDenominator(dens) == \E i \in 1 .. Len(dens) : dens[i] = Zero

\* faulty variant: every row reads the first preprocessed row
PrepRowOfFirst(r) == IF preprocessed = None THEN <<>> ELSE preprocessed[1]

\* the preprocessed row zipped with main row r, empty without a preprocessed trace
PrepRowOf(r) == IF preprocessed = None THEN <<>> ELSE preprocessed[r]

\* ------------------------------------------------ generate_permutation_trace
Start ==
    /\ pc = "start"
    /\ alphas' = GenerateInteractionRlcElements(sends, receives, random_elements[1])
    /\ permutation_trace' =
          [r \in 1 .. Height |->
              [j \in 1 .. PermutationTraceWidth(sends, receives, batch_size) |-> Zero]]
    /\ denominators' = [r \in 1 .. Height |-> <<>>]
    /\ pc' = "populate"
    /\ UNCHANGED <<others, inputs, populated, row_sums, splits, local_scans, cumulative_sums, eval_alphas, failed>>

\* debug_assert_eq!(num_chunks + 1, row.len())
NumChunksAssertion(row, s, r, b) ==
    LET num_chunks == (Len(s) + Len(r) + 1) \div b
    IN  num_chunks + 1 = Len(row)

\* one task of the parallel for_each over the rows; the assertion is compiled
\* in only where the build has debug assertions
PopulateRow(r) ==
    /\ pc = "populate"
    /\ r \in (1 .. Height) \ populated
    /\ \E debug_assertions \in BOOLEAN :
          LET dens == RowDenominators(Len(permutation_trace[r]), PrepRowOf(r), main[r],
                                      sends, receives, alphas, random_elements[2], batch_size)
          IN  IF debug_assertions
                    /\ ~NumChunksAssertion(permutation_trace[r], sends, receives, batch_size)
              THEN /\ pc' = "panicked"
                   /\ UNCHANGED <<permutation_trace, populated, denominators>>
              ELSE /\ denominators' = [denominators EXCEPT ![r] = dens]
                   /\ IF HasZeroDenominator(dens)
                      THEN /\ pc' = "panicked"
                           /\ UNCHANGED <<permutation_trace, populated>>
                      ELSE /\ permutation_trace' =
                                 [permutation_trace EXCEPT ![r] =
                                     PopulatePermutationRow(permutation_trace[r], PrepRowOf(r),
                                                            main[r], sends, receives, alphas,
                                                            random_elements[2], batch_size)]
                           /\ populated' = populated \cup {r}
                           /\ pc' = pc
    /\ UNCHANGED <<others, inputs, alphas, row_sums, splits, local_scans, cumulative_sums, eval_alphas, failed>>

\* the parallel map of every row to the sum of row[0 .. width - 1]
RowSums ==
    /\ pc = "populate"
    /\ populated = 1 .. Height
    /\ row_sums' =
          [r \in 1 .. Height |->
              ESum(SubSeq(permutation_trace[r], 1, Len(permutation_trace[r]) - 1))]
    /\ pc' = "split"
    /\ UNCHANGED <<others, inputs, alphas, permutation_trace, populated, denominators,
                   splits, local_scans, cumulative_sums, eval_alphas, failed>>

RECURSIVE SortedSeq(_)
SortedSeq(S) ==
    IF S = {} THEN <<>>
    ELSE LET m == CHOOSE x \in S : \A y \in S : x <= y
         IN  <<m>> \o SortedSeq(S \ {m})

\* the contiguous pieces the parallel iterator is split into at the cut points
SegmentsOf(cuts, h) ==
    LET bs == SortedSeq({0, h} \cup cuts)
    IN  [s \in 1 .. Len(bs) - 1 |-> <<bs[s] + 1, bs[s + 1]>>]

\* faulty variant: the scan emits the accumulator before adding the element
RECURSIVE ScanFromExclusive(_, _)
ScanFromExclusive(seq, acc) ==
    IF seq = <<>> THEN <<>>
    ELSE <<acc>> \o ScanFromExclusive(Tail(seq), EAdd(acc, Head(seq)))

\* a sequential scan with |a, b| *a + *b, starting from acc
RECURSIVE ScanFrom(_, _)
ScanFrom(seq, acc) ==
    IF seq = <<>> THEN <<>>
    ELSE LET a == EAdd(acc, Head(seq))
         IN  <<a>> \o ScanFrom(Tail(seq), a)

\* the offset of piece s: the totals of the pieces before it, added to the identity
\* from the first piece on ("left") or from the nearest piece back ("right")
RECURSIVE TotalsBefore(_, _, _)
TotalsBefore(locals, s, order) ==
    IF s = 1 THEN <<>>
    ELSE LET total == locals[s - 1][Len(locals[s - 1])]
         IN  IF order = "left" THEN TotalsBefore(locals, s - 1, order) \o <<total>>
             ELSE <<total>> \o TotalsBefore(locals, s - 1, order)

RECURSIVE FoldAdd(_, _)
FoldAdd(acc, seq) == IF seq = <<>> THEN acc ELSE FoldAdd(EAdd(acc, Head(seq)), Tail(seq))

OffsetOf(locals, s, identity, order) == FoldAdd(identity, TotalsBefore(locals, s, order))

RECURSIVE Flatten(_)
Flatten(ss) == IF ss = <<>> THEN <<>> ELSE Head(ss) \o Flatten(Tail(ss))

\* faulty variant: the pieces are collected without their offsets
CombineScansNoOffset(locals, identity, order) == Flatten(locals)

CombineScans(locals, identity, order) ==
    Flatten([s \in 1 .. Len(locals) |->
                [i \in 1 .. Len(locals[s]) |->
                    EAdd(OffsetOf(locals, s, identity, order), locals[s][i])]])

\* into_par_iter().scan(..): the rows are split into contiguous pieces
ScanSplit(cuts) ==
    /\ pc = "split"
    /\ cuts \subseteq 1 .. (Height - 1)
    /\ splits' = SegmentsOf(cuts, Height)
    /\ local_scans' = [s \in 1 .. Len(splits') |-> <<>>]
    /\ pc' = "scan"
    /\ UNCHANGED <<others, inputs, alphas, permutation_trace, populated, denominators,
                   row_sums, cumulative_sums, eval_alphas, failed>>

\* one worker scans its own piece
ScanLocal(s) ==
    /\ pc = "scan"
    /\ s \in 1 .. Len(splits)
    /\ local_scans[s] = <<>>
    /\ local_scans' =
          [local_scans EXCEPT ![s] = ScanFrom(SubSeq(row_sums, splits[s][1], splits[s][2]), Zero)]
    /\ UNCHANGED <<others, inputs, pc, alphas, permutation_trace, populated, denominators,
                   row_sums, splits, cumulative_sums, eval_alphas, failed>>

\* the pieces are shifted by the totals before them and collected in row order
ScanCombine ==
    /\ pc = "scan"
    /\ \A s \in 1 .. Len(splits) : local_scans[s] # <<>>
    /\ \E order \in {"left", "right"} : cumulative_sums' = CombineScans(local_scans, Zero, order)
    /\ pc' = "write"
    /\ UNCHANGED <<others, inputs, alphas, permutation_trace, populated, denominators,
                   row_sums, splits, local_scans, eval_alphas, failed>>

\* *row.last_mut().unwrap() = cumulative_sum, for every row
WriteCumulative ==
    /\ pc = "write"
    /\ permutation_trace' =
          [r \in 1 .. Height |->
              [permutation_trace[r] EXCEPT ![Len(permutation_trace[r])] = cumulative_sums[r]]]
    /\ pc' = "done"
    /\ UNCHANGED <<others, inputs, alphas, populated, denominators,
                   row_sums, splits, local_scans, cumulative_sums, eval_alphas, failed>>

\* ---------------------------------------------- eval_permutation_constraints
\* rlc starts at zero, takes beta^k * elem for every value and then the alpha
RECURSIVE EvalFoldValues(_, _, _, _, _, _)
EvalFoldValues(values, betaPow, beta, rlc, preprocessed_local, main_local) ==
    IF values = <<>> THEN rlc
    ELSE EvalFoldValues(Tail(values), EMul(betaPow, beta), beta,
                        EAdd(rlc, EScale(betaPow, Apply(Head(values), preprocessed_local, main_local))),
                        preprocessed_local, main_local)

EvalRlc(interaction, als, beta, preprocessed_local, main_local) ==
    EAdd(EvalFoldValues(interaction.values, One, beta, Zero, preprocessed_local, main_local),
         als[interaction.argument_index + 1])

\* multiplicity.apply(..) * send_factor
EvalMultiplicity(t, preprocessed_local, main_local) ==
    LET send_factor == IF t.is_send THEN 1 ELSE FNeg(1)
    IN  (Apply(t.interaction.multiplicity, preprocessed_local, main_local) * send_factor) % P

RECURSIVE EProduct(_)
EProduct(s) == IF s = <<>> THEN One ELSE EMul(Head(s), EProduct(Tail(s)))

\* the product of all rlcs but the i-th
AllButCurrent(rlcs, i) ==
    EProduct(SubSeq(rlcs, 1, i - 1) \o SubSeq(rlcs, i + 1, Len(rlcs)))

\* the two sides of assert_eq_ext(product * entry, numerator) for one chunk
ChunkSides(entry, chunk, als, beta, preprocessed_local, main_local) ==
    LET rlcs == [i \in 1 .. Len(chunk) |->
                    EvalRlc(chunk[i].interaction, als, beta, preprocessed_local, main_local)]
        multiplicities == [i \in 1 .. Len(chunk) |->
                              EvalMultiplicity(chunk[i], preprocessed_local, main_local)]
        product == EProduct(rlcs)
        numerator == ESum([i \in 1 .. Len(chunk) |->
                              EMul(FromBase(multiplicities[i]), AllButCurrent(rlcs, i))])
    IN  <<EMul(product, entry), numerator>>

\* builder.cumulative_sum(): the total the prover declares for the chip
DeclaredCumulativeSum(trace) ==
    trace[Len(trace)][Len(trace[Len(trace)])]

\* faulty variant: the first-row assertion is missing
EvalPermutationConstraintsNoFirst(r, trace, als, beta) ==
    LET h == Len(trace)
        n == IF r = h THEN 1 ELSE r + 1
        perm_local == trace[r]
        perm_next == trace[n]
        perm_width == Len(perm_local)
        chunks == Chunks(Tagged(sends, receives), batch_size)
        zipped == Min(perm_width, Len(chunks))
        sum_local == ESum(SubSeq(perm_local, 1, perm_width - 1))
        sum_next == ESum(SubSeq(perm_next, 1, perm_width - 1))
        phi_local == perm_local[perm_width]
        phi_next == perm_next[perm_width]
    IN  {<<"chunk", r, j>> : j \in {k \in 1 .. zipped :
            LET sides == ChunkSides(perm_local[k], chunks[k], als, beta, PrepRowOf(r), main[r])
            IN  sides[1] # sides[2]}}
        \cup (IF r # h /\ ESub(phi_next, phi_local) # sum_next THEN {<<"transition", r, 0>>} ELSE {})
        \cup (IF r = h /\ phi_local # DeclaredCumulativeSum(trace) THEN {<<"last", r, 0>>} ELSE {})

\* the assertions that fail on the window (local = row r, next = the row after
\* it, cyclically)
EvalPermutationConstraints(r, trace, als, beta) ==
    LET h == Len(trace)
        n == IF r = h THEN 1 ELSE r + 1
        perm_local == trace[r]
        perm_next == trace[n]
        perm_width == Len(perm_local)
        chunks == Chunks(Tagged(sends, receives), batch_size)
        zipped == Min(perm_width, Len(chunks))
        sum_local == ESum(SubSeq(perm_local, 1, perm_width - 1))
        sum_next == ESum(SubSeq(perm_next, 1, perm_width - 1))
        phi_local == perm_local[perm_width]
        phi_next == perm_next[perm_width]
    IN  {<<"chunk", r, j>> : j \in {k \in 1 .. zipped :
            LET sides == ChunkSides(perm_local[k], chunks[k], als, beta, PrepRowOf(r), main[r])
            IN  sides[1] # sides[2]}}
        \cup (IF r # h /\ ESub(phi_next, phi_local) # sum_next THEN {<<"transition", r, 0>>} ELSE {})
        \cup (IF r = 1 /\ phi_local # sum_local THEN {<<"first", r, 0>>} ELSE {})
        \cup (IF r = h /\ phi_local # DeclaredCumulativeSum(trace) THEN {<<"last", r, 0>>} ELSE {})

\* the constraints are evaluated on every row of the generated trace
Eval ==
    /\ pc = "done"
    /\ eval_alphas' = GenerateInteractionRlcElements(sends, receives, random_elements[1])
    /\ failed' = UNION {EvalPermutationConstraints(r, permutation_trace, eval_alphas',
                                                   random_elements[2]) : r \in 1 .. Height}
    /\ pc' = "checked"
    /\ UNCHANGED <<others, inputs, alphas, permutation_trace, populated, denominators,
                   row_sums, splits, local_scans, cumulative_sums>>

Next ==
    \/ Start
    \/ \E r \in 1 .. MaxHeight + 1 : PopulateRow(r)
    \/ RowSums
    \/ \E cuts \in SUBSET (1 .. MaxHeight) : ScanSplit(cuts)
    \/ \E s \in 1 .. MaxHeight + 1 : ScanLocal(s)
    \/ ScanCombine
    \/ WriteCumulative
    \/ Eval

Spec == Init /\ [][Next]_vars

\* ------------------------------------------------------- the negative test
\* A generated trace is kept while one input of the evaluator is changed, and
\* the constraints are evaluated again.
MaxTamperSide == 1
MaxTamperHeight == 1

\* the scenario's interaction reading its value and multiplicity from the main
\* row: value main[0], multiplicity main[1], channel 0
ID == [values |-> <<MainCol(1)>>, multiplicity |-> MainCol(2), argument_index |-> 0]

TamperPool == {IA, ID}

\* what is added to a cumulative cell
TamperDeltas == {<<1, 0>>, <<0, 1>>}

InitTamper ==
    /\ sends \in SeqsUpTo(TamperPool, MaxTamperSide)
    /\ receives \in SeqsUpTo(TamperPool, MaxTamperSide)
    /\ batch_size \in 1 .. MaxBatch
    /\ \E h \in 1 .. MaxTamperHeight : main = MainTrace(h)
    /\ preprocessed = None
    /\ random_elements \in Challenges
    /\ pc = "start"
    /\ alphas = <<>>
    /\ permutation_trace = <<>>
    /\ populated = {}
    /\ denominators = <<>>
    /\ row_sums = <<>>
    /\ splits = <<>>
    /\ local_scans = <<>>
    /\ cumulative_sums = <<>>
    /\ eval_alphas = <<>>
    /\ failed = {}
    /\ tampered = <<>>
    /\ overflow_checks = FALSE
    /\ MemIdle
    /\ GenIdle
    /\ IoIdle
    /\ PreIdle
    /\ FipIdle

\* the one-send/one-receive scenario: the same interaction sent and received
\* once, with value 5 and multiplicity 1, batch size 1, one row
IsScenario ==
    /\ Len(sends) = 1
    /\ receives = sends
    /\ batch_size = 1
    /\ Height = 1
    /\ \/ sends[1] = IA
       \/ sends[1] = ID /\ main[1] = <<5, 1>>

Side(side) == IF side = "sends" THEN sends ELSE receives

TamperedInteractions(side, i, int) ==
    /\ sends' = IF side = "sends" THEN [sends EXCEPT ![i] = int] ELSE sends
    /\ receives' = IF side = "receives" THEN [receives EXCEPT ![i] = int] ELSE receives

\* the multiplicity of one interaction becomes another constant
TamperMultiplicity(side, i, v) ==
    /\ pc = "done"
    /\ i \in 1 .. Len(Side(side))
    /\ Side(side)[i].multiplicity.kind = "const"
    /\ Side(side)[i].multiplicity.constant # v
    /\ TamperedInteractions(side, i, [Side(side)[i] EXCEPT !.multiplicity = ConstCol(v)])
    /\ tampered' = [kind |-> "multiplicity", scenario |-> IsScenario]
    /\ pc' = "tampered"
    /\ UNCHANGED <<overflow_checks, mem, gen, io, pre, fip, preprocessed, main, random_elements, batch_size, alphas, permutation_trace,
                   populated, denominators, row_sums, splits, local_scans, cumulative_sums,
                   eval_alphas, failed>>

\* one value of one interaction's tuple becomes another constant
TamperValue(side, i, k, v) ==
    /\ pc = "done"
    /\ i \in 1 .. Len(Side(side))
    /\ k \in 1 .. Len(Side(side)[i].values)
    /\ Side(side)[i].values[k].kind = "const"
    /\ Side(side)[i].values[k].constant # v
    /\ TamperedInteractions(side, i, [Side(side)[i] EXCEPT !.values[k] = ConstCol(v)])
    /\ tampered' = [kind |-> "value", scenario |-> IsScenario]
    /\ pc' = "tampered"
    /\ UNCHANGED <<overflow_checks, mem, gen, io, pre, fip, preprocessed, main, random_elements, batch_size, alphas, permutation_trace,
                   populated, denominators, row_sums, splits, local_scans, cumulative_sums,
                   eval_alphas, failed>>

\* one cell of the main trace becomes another field element
TamperMain(r, c, v) ==
    /\ pc = "done"
    /\ r \in 1 .. Height
    /\ c \in 1 .. Len(main[r])
    /\ main[r][c] # v
    /\ main' = [main EXCEPT ![r][c] = v]
    /\ tampered' = [kind |-> "main", scenario |-> IsScenario /\ UsesMain(sends)]
    /\ pc' = "tampered"
    /\ UNCHANGED <<overflow_checks, mem, gen, io, pre, fip, sends, receives, preprocessed, random_elements, batch_size, alphas,
                   permutation_trace, populated, denominators, row_sums, splits, local_scans,
                   cumulative_sums, eval_alphas, failed>>

\* one cumulative cell of the permutation trace is shifted
TamperCumulative(r, d) ==
    /\ pc = "done"
    /\ r \in 1 .. Height
    /\ permutation_trace' =
          [permutation_trace EXCEPT ![r][Len(permutation_trace[r])] =
              EAdd(permutation_trace[r][Len(permutation_trace[r])], d)]
    /\ tampered' = [kind |-> "cumulative", scenario |-> IsScenario]
    /\ pc' = "tampered"
    /\ UNCHANGED <<overflow_checks, mem, gen, io, pre, fip, inputs, alphas, populated, denominators, row_sums, splits, local_scans,
                   cumulative_sums, eval_alphas, failed>>

\* the constraints are evaluated on the kept trace against the changed inputs
EvalTampered ==
    /\ pc = "tampered"
    /\ eval_alphas' = GenerateInteractionRlcElements(sends, receives, random_elements[1])
    /\ failed' = UNION {EvalPermutationConstraints(r, permutation_trace, eval_alphas',
                                                   random_elements[2]) : r \in 1 .. Height}
    /\ pc' = "checked_tampered"
    /\ UNCHANGED <<others, inputs, alphas, permutation_trace, populated, denominators,
                   row_sums, splits, local_scans, cumulative_sums>>

NextTamper ==
    \/ Next
    \/ \E side \in {"sends", "receives"} : \E i \in 1 .. MaxTamperSide + 1 : \E v \in F :
          TamperMultiplicity(side, i, v)
    \/ \E side \in {"sends", "receives"} : \E i \in 1 .. MaxTamperSide + 1 : \E k \in 1 .. 2 : \E v \in F :
          TamperValue(side, i, k, v)
    \/ \E r \in 1 .. MaxTamperHeight + 1 : \E c \in 1 .. 2 : \E v \in F : TamperMain(r, c, v)
    \/ \E r \in 1 .. MaxTamperHeight + 1 : \E d \in TamperDeltas : TamperCumulative(r, d)
    \/ EvalTampered

SpecTamper == InitTamper /\ [][NextTamper]_vars

\* ----------------------------------------------------------- memory columns
\* calls made on one set of columns and one buffer
MaxCalls == 2

\* the order of F: PrimeField32 (BabyBear)
FieldOrder == 2013265921

FromCanonicalU32(n) == n % FieldOrder

FromBool(b) == IF b THEN 1 ELSE 0

\* Word<F> from a u32: its four bytes, least significant first
Word(v) == <<v % 256, (v \div 256) % 256, (v \div 65536) % 256, (v \div 16777216) % 256>>

\* the u32 that an expression of mathematical value d wraps to, as its two
\* 16-bit halves (every operand of the model is below 2^31)
U32(d) == [hi |-> (d \div 65536) % 65536, lo |-> d % 65536]

\* u & 0xffff
And0xffff(u) == u.lo

\* (u >> 16) & 0xff
Shr16And0xff(u) == u.hi % 256

\* ByteLookupEvent::new(shard, opcode, a1, a2, b, c)
ByteLookupEvent(shard, opcode, a1, a2, b, c) ==
    [shard |-> shard, opcode |-> opcode, a1 |-> a1, a2 |-> a2, b |-> b, c |-> c]

\* the shards and timestamps of an access and of the access before it: gaps
\* of 1, of 2^16 + 1, of 2^24 and of 2^24 + 1 in one shard, an equal and a
\* decreasing timestamp, and a later and an earlier shard
TimePairs ==
    { [shard |-> 1, timestamp |-> 5, prev_shard |-> 1, prev_timestamp |-> 4],
      [shard |-> 1, timestamp |-> 65538, prev_shard |-> 1, prev_timestamp |-> 1],
      [shard |-> 2, timestamp |-> 16777217, prev_shard |-> 2, prev_timestamp |-> 1],
      [shard |-> 1, timestamp |-> 16777218, prev_shard |-> 1, prev_timestamp |-> 1],
      [shard |-> 1, timestamp |-> 5, prev_shard |-> 1, prev_timestamp |-> 5],
      [shard |-> 1, timestamp |-> 5, prev_shard |-> 1, prev_timestamp |-> 9],
      [shard |-> 3, timestamp |-> 2, prev_shard |-> 2, prev_timestamp |-> 100],
      [shard |-> 1, timestamp |-> 8, prev_shard |-> 3, prev_timestamp |-> 6] }

\* MemoryReadRecord
ReadRecord(t) ==
    [value |-> 515, shard |-> t.shard, timestamp |-> t.timestamp,
     prev_shard |-> t.prev_shard, prev_timestamp |-> t.prev_timestamp]

\* MemoryWriteRecord
WriteRecord(t) ==
    [value |-> 16909060, shard |-> t.shard, timestamp |-> t.timestamp,
     prev_value |-> 7, prev_shard |-> t.prev_shard, prev_timestamp |-> t.prev_timestamp]

ReadRecords == {ReadRecord(t) : t \in TimePairs}
WriteRecords == {WriteRecord(t) : t \in TimePairs}

\* MemoryRecordEnum
RecordEnums ==
    {[kind |-> "Read", record |-> r] : r \in ReadRecords}
        \cup {[kind |-> "Write", record |-> r] : r \in WriteRecords}

\* MemoryAccessCols of a zeroed row
ZeroAccessCols ==
    [value |-> Word(0), prev_shard |-> 0, prev_clk |-> 0, compare_clk |-> 0,
     diff_16bit_limb |-> 0, diff_8bit_limb |-> 0]

ZeroReadCols == [access |-> ZeroAccessCols]
ZeroWriteCols == [prev_value |-> Word(0), access |-> ZeroAccessCols]
ZeroReadWriteCols == [prev_value |-> Word(0), access |-> ZeroAccessCols]

\* faulty variant: the U8Range event is pushed before the U16Range event
PopulateAccessU8First(self, current_record, prev_record, new_blu, checks) ==
    LET use_clk_comparison == prev_record.shard = current_record.shard
        prev_time_value ==
            IF use_clk_comparison THEN prev_record.timestamp ELSE prev_record.shard
        current_time_value ==
            IF use_clk_comparison THEN current_record.timestamp ELSE current_record.shard
        head == [self EXCEPT !.value = Word(current_record.value),
                             !.prev_shard = FromCanonicalU32(prev_record.shard),
                             !.prev_clk = FromCanonicalU32(prev_record.timestamp),
                             !.compare_clk = FromBool(use_clk_comparison)]
        diff_minus_one == U32(current_time_value - prev_time_value - 1)
        diff_16bit_limb == And0xffff(diff_minus_one)
        diff_8bit_limb == Shr16And0xff(diff_minus_one)
        shard == current_record.shard
    IN  IF checks /\ current_time_value <= prev_time_value
        THEN [cols |-> head, events |-> new_blu, panicked |-> TRUE]
        ELSE [cols |-> [head EXCEPT !.diff_16bit_limb = FromCanonicalU32(diff_16bit_limb),
                                    !.diff_8bit_limb = FromCanonicalU32(diff_8bit_limb)],
              events |-> new_blu \o
                  << ByteLookupEvent(shard, "U8Range", 0, 0, 0, diff_8bit_limb),
                     ByteLookupEvent(shard, "U16Range", diff_16bit_limb, 0, 0, 0) >>,
              panicked |-> FALSE]

\* MemoryAccessCols::populate_access. The two subtractions are u32
\* subtractions: where the build checks overflow (checks) they panic when
\* current_time_value <= prev_time_value, before a limb is written or an event
\* pushed; where it does not they wrap.
PopulateAccess(self, current_record, prev_record, new_blu, checks) ==
    LET use_clk_comparison == prev_record.shard = current_record.shard
        prev_time_value ==
            IF use_clk_comparison THEN prev_record.timestamp ELSE prev_record.shard
        current_time_value ==
            IF use_clk_comparison THEN current_record.timestamp ELSE current_record.shard
        head == [self EXCEPT !.value = Word(current_record.value),
                             !.prev_shard = FromCanonicalU32(prev_record.shard),
                             !.prev_clk = FromCanonicalU32(prev_record.timestamp),
                             !.compare_clk = FromBool(use_clk_comparison)]
        diff_minus_one == U32(current_time_value - prev_time_value - 1)
        diff_16bit_limb == And0xffff(diff_minus_one)
        diff_8bit_limb == Shr16And0xff(diff_minus_one)
        shard == current_record.shard
    IN  IF checks /\ current_time_value <= prev_time_value
        THEN [cols |-> head, events |-> new_blu, panicked |-> TRUE]
        ELSE [cols |-> [head EXCEPT !.diff_16bit_limb = FromCanonicalU32(diff_16bit_limb),
                                    !.diff_8bit_limb = FromCanonicalU32(diff_8bit_limb)],
              events |-> new_blu \o
                  << ByteLookupEvent(shard, "U16Range", diff_16bit_limb, 0, 0, 0),
                     ByteLookupEvent(shard, "U8Range", 0, 0, 0, diff_8bit_limb) >>,
              panicked |-> FALSE]

\* the MemoryRecord of the access itself
CurrentRecord(record) ==
    [value |-> record.value, shard |-> record.shard, timestamp |-> record.timestamp]

\* faulty variant: prev_value is taken from the value written
MemoryWriteColsPopulateValue(self, record, new_blu, checks) ==
    LET prev_record == [value |-> record.prev_value, shard |-> record.prev_shard,
                        timestamp |-> record.prev_timestamp]
        r == PopulateAccess(self.access, CurrentRecord(record), prev_record, new_blu, checks)
    IN  [cols |-> [prev_value |-> Word(record.value), access |-> r.cols],
         events |-> r.events, panicked |-> r.panicked]

\* MemoryWriteCols::populate
MemoryWriteColsPopulate(self, record, new_blu, checks) ==
    LET prev_record == [value |-> record.prev_value, shard |-> record.prev_shard,
                        timestamp |-> record.prev_timestamp]
        r == PopulateAccess(self.access, CurrentRecord(record), prev_record, new_blu, checks)
    IN  [cols |-> [prev_value |-> Word(prev_record.value), access |-> r.cols],
         events |-> r.events, panicked |-> r.panicked]

\* MemoryReadCols::populate
MemoryReadColsPopulate(self, record, new_blu, checks) ==
    LET prev_record == [value |-> record.value, shard |-> record.prev_shard,
                        timestamp |-> record.prev_timestamp]
        r == PopulateAccess(self.access, CurrentRecord(record), prev_record, new_blu, checks)
    IN  [cols |-> [access |-> r.cols], events |-> r.events, panicked |-> r.panicked]

\* MemoryReadWriteCols::populate_write
PopulateWrite(self, record, new_blu, checks) ==
    LET prev_record == [value |-> record.prev_value, shard |-> record.prev_shard,
                        timestamp |-> record.prev_timestamp]
        r == PopulateAccess(self.access, CurrentRecord(record), prev_record, new_blu, checks)
    IN  [cols |-> [prev_value |-> Word(prev_record.value), access |-> r.cols],
         events |-> r.events, panicked |-> r.panicked]

\* MemoryReadWriteCols::populate_read
PopulateRead(self, record, new_blu, checks) ==
    LET prev_record == [value |-> record.value, shard |-> record.prev_shard,
                        timestamp |-> record.prev_timestamp]
        r == PopulateAccess(self.access, CurrentRecord(record), prev_record, new_blu, checks)
    IN  [cols |-> [prev_value |-> Word(prev_record.value), access |-> r.cols],
         events |-> r.events, panicked |-> r.panicked]

\* MemoryReadWriteCols::populate
Populate(self, record, new_blu, checks) ==
    IF record.kind = "Read"
    THEN PopulateRead(self, record.record, new_blu, checks)
    ELSE PopulateWrite(self, record.record, new_blu, checks)

\* one column struct of each type, zeroed, an empty buffer and either build
InitMem ==
    /\ overflow_checks \in BOOLEAN
    /\ mem_cols = [write |-> ZeroWriteCols, read |-> ZeroReadCols,
                   read_write |-> ZeroReadWriteCols]
    /\ new_blu_events = <<>>
    /\ mem_pc = "ready"
    /\ mem_call = NoCall
    /\ PermutationIdle
    /\ GenIdle
    /\ IoIdle
    /\ PreIdle
    /\ FipIdle

\* what a call leaves behind; a panic ends the process
Called(field, fn, record, r) ==
    /\ mem_cols' = [mem_cols EXCEPT ![field] = r.cols]
    /\ new_blu_events' = r.events
    /\ mem_pc' = IF r.panicked THEN "panicked" ELSE "ready"
    /\ mem_call' = [fn |-> fn, cols |-> field, record |-> record]
    /\ UNCHANGED <<permutation, io, pre, fip, overflow_checks, gen>>

CanCall ==
    /\ mem_pc = "ready"
    /\ Len(new_blu_events) < 2 * MaxCalls

CallWritePopulate(record) ==
    /\ CanCall
    /\ Called("write", "MemoryWriteCols::populate", record,
              MemoryWriteColsPopulate(mem_cols.write, record, new_blu_events, overflow_checks))

CallReadPopulate(record) ==
    /\ CanCall
    /\ Called("read", "MemoryReadCols::populate", record,
              MemoryReadColsPopulate(mem_cols.read, record, new_blu_events, overflow_checks))

CallPopulate(record) ==
    /\ CanCall
    /\ Called("read_write", "MemoryReadWriteCols::populate", record.record,
              Populate(mem_cols.read_write, record, new_blu_events, overflow_checks))

CallPopulateWrite(record) ==
    /\ CanCall
    /\ Called("read_write", "MemoryReadWriteCols::populate_write", record,
              PopulateWrite(mem_cols.read_write, record, new_blu_events, overflow_checks))

CallPopulateRead(record) ==
    /\ CanCall
    /\ Called("read_write", "MemoryReadWriteCols::populate_read", record,
              PopulateRead(mem_cols.read_write, record, new_blu_events, overflow_checks))

NextMem ==
    \/ \E record \in WriteRecords : CallWritePopulate(record)
    \/ \E record \in ReadRecords : CallReadPopulate(record)
    \/ \E record \in RecordEnums : CallPopulate(record)
    \/ \E record \in WriteRecords : CallPopulateWrite(record)
    \/ \E record \in ReadRecords : CallPopulateRead(record)

SpecMem == InitMem /\ [][NextMem]_vars

\* ------------------------------------ WeierstrassAddAssignChip::generate_trace
\* events of one curve in the input record
MaxMemEvents == 2

\* padding rows pad_rows may add
MaxPad == 1

\* cols.q_access.len() and cols.p_access.len(), the words of a point
NumWords == 1

Curves == {"Secp256k1", "Bn254"}

\* an add event, by the memory records of its q and p words
AddEvent(q, p) == [q_memory_records |-> <<ReadRecord(q)>>, p_memory_records |-> <<WriteRecord(p)>>]

\* events of in-range gaps, of a gap of 2^24 + 1, and of a decreasing timestamp
AddEvents ==
    { AddEvent([shard |-> 1, timestamp |-> 65538, prev_shard |-> 1, prev_timestamp |-> 1],
               [shard |-> 1, timestamp |-> 5, prev_shard |-> 1, prev_timestamp |-> 4]),
      AddEvent([shard |-> 1, timestamp |-> 16777218, prev_shard |-> 1, prev_timestamp |-> 1],
               [shard |-> 3, timestamp |-> 2, prev_shard |-> 2, prev_timestamp |-> 100]),
      AddEvent([shard |-> 1, timestamp |-> 5, prev_shard |-> 1, prev_timestamp |-> 4],
               [shard |-> 1, timestamp |-> 5, prev_shard |-> 1, prev_timestamp |-> 9]) }

RECURSIVE SeqToBag(_)
SeqToBag(s) ==
    IF s = <<>> THEN EmptyBag
    ELSE SetToBag({s[1]}) (+) SeqToBag(Tail(s))

\* ExecutionRecord::add_byte_lookup_events: every event is counted in the
\* record's multiset
AddByteLookupEvents(byte_lookups, blu_events) ==
    byte_lookups (+) SeqToBag(blu_events)

\* faulty variant: every q access is populated with a buffer of its own
RECURSIVE PopulateQAccessFresh(_, _, _, _)
PopulateQAccessFresh(event, n, new_blu, checks) ==
    IF n = 0 THEN [cols |-> <<>>, events |-> new_blu, panicked |-> FALSE]
    ELSE LET before == PopulateQAccessFresh(event, n - 1, new_blu, checks)
             r == MemoryReadColsPopulate(ZeroReadCols, event.q_memory_records[n],
                                         <<>>, checks)
         IN  IF before.panicked THEN before
             ELSE [cols |-> Append(before.cols, r.cols), events |-> r.events,
                   panicked |-> r.panicked]

\* for i in 0..cols.q_access.len(): the first n populate calls of one row
RECURSIVE PopulateQAccess(_, _, _, _)
PopulateQAccess(event, n, new_blu, checks) ==
    IF n = 0 THEN [cols |-> <<>>, events |-> new_blu, panicked |-> FALSE]
    ELSE LET before == PopulateQAccess(event, n - 1, new_blu, checks)
             r == MemoryReadColsPopulate(ZeroReadCols, event.q_memory_records[n],
                                         before.events, checks)
         IN  IF before.panicked THEN before
             ELSE [cols |-> Append(before.cols, r.cols), events |-> r.events,
                   panicked |-> r.panicked]

\* for i in 0..cols.p_access.len()
RECURSIVE PopulatePAccess(_, _, _, _)
PopulatePAccess(event, n, new_blu, checks) ==
    IF n = 0 THEN [cols |-> <<>>, events |-> new_blu, panicked |-> FALSE]
    ELSE LET before == PopulatePAccess(event, n - 1, new_blu, checks)
             r == MemoryWriteColsPopulate(ZeroWriteCols, event.p_memory_records[n],
                                          before.events, checks)
         IN  IF before.panicked THEN before
             ELSE [cols |-> Append(before.cols, r.cols), events |-> r.events,
                   panicked |-> r.panicked]

\* the row pad_rows' closure builds: no memory access is populated
PaddingRow ==
    [is_real |-> 0,
     q_access |-> [i \in 1 .. NumWords |-> ZeroReadCols],
     p_access |-> [i \in 1 .. NumWords |-> ZeroWriteCols]]

\* the input record holds the add events of each curve, the output record no
\* byte lookup yet
InitGen ==
    /\ overflow_checks \in BOOLEAN
    /\ input \in [Curves -> SeqsUpTo(AddEvents, MaxMemEvents)]
    /\ output = EmptyBag
    /\ curve = None
    /\ done = <<>>
    /\ rows = <<>>
    /\ new_byte_lookup_events = <<>>
    /\ gen_pc = "idle"
    /\ PermutationIdle
    /\ MemIdle
    /\ IoIdle
    /\ PreIdle
    /\ FipIdle

Events == input[curve]

\* generate_trace of the chip of curve c is called with the output record;
\* the chips are called one at a time, in either order
GenerateTrace(c) ==
    /\ gen_pc = "idle"
    /\ \A i \in 1 .. Len(done) : done[i] # c
    /\ curve' = c
    /\ rows' = <<>>
    /\ new_byte_lookup_events' = <<>>
    /\ gen_pc' = "loop"
    /\ UNCHANGED <<permutation, io, pre, fip, overflow_checks, mem, input, output, done>>

\* one iteration of for i in 0..events.len()
GenerateRow ==
    /\ gen_pc = "loop"
    /\ Len(rows) < Len(Events)
    /\ LET event == Events[Len(rows) + 1]
           q == PopulateQAccess(event, NumWords, new_byte_lookup_events, overflow_checks)
           p == PopulatePAccess(event, NumWords, q.events, overflow_checks)
       IN  IF q.panicked
           THEN /\ new_byte_lookup_events' = q.events
                /\ gen_pc' = "panicked"
                /\ UNCHANGED rows
           ELSE IF p.panicked
           THEN /\ new_byte_lookup_events' = p.events
                /\ gen_pc' = "panicked"
                /\ UNCHANGED rows
           ELSE /\ new_byte_lookup_events' = p.events
                /\ rows' = Append(rows, [is_real |-> 1, q_access |-> q.cols,
                                         p_access |-> p.cols])
                /\ gen_pc' = gen_pc
    /\ UNCHANGED <<permutation, io, pre, fip, overflow_checks, mem, input, output, curve, done>>

\* output.add_byte_lookup_events(new_byte_lookup_events), after the loop
MergeEvents ==
    /\ gen_pc = "loop"
    /\ Len(rows) = Len(Events)
    /\ output' = AddByteLookupEvents(output, new_byte_lookup_events)
    /\ gen_pc' = "pad"
    /\ UNCHANGED <<permutation, io, pre, fip, overflow_checks, mem, input, curve, done, rows,
                   new_byte_lookup_events>>

\* pad_rows, whatever number of rows it adds, and the return of the matrix
PadRows(k) ==
    /\ gen_pc = "pad"
    /\ rows' = rows \o [i \in 1 .. k |-> PaddingRow]
    /\ done' = Append(done, curve)
    /\ curve' = None
    /\ gen_pc' = "idle"
    /\ UNCHANGED <<permutation, io, pre, fip, overflow_checks, mem, input, output,
                   new_byte_lookup_events>>

NextGen ==
    \/ \E c \in Curves : GenerateTrace(c)
    \/ GenerateRow
    \/ MergeEvents
    \/ \E k \in 0 .. MaxPad : PadRows(k)

SpecGen == InitGen /\ [][NextGen]_vars

\* ------------------------------------------------ Runtime public values
\* bytes in the public values stream
MaxStream == 3

\* bytes a caller's buffer holds
MaxBuf == 2

\* u8 values the stream is made of
Bytes == {7, 200}

\* faulty variant: the pointer is left at start
ReadPublicValuesSliceNoAdvance(stream, ptr, dst) ==
    LET len == Len(dst)
        start == ptr
        end == start + len
    IN  IF ~(end <= Len(stream))
        THEN [panicked |-> TRUE, buf |-> dst, ptr |-> ptr]
        ELSE [panicked |-> FALSE, buf |-> SubSeq(stream, start + 1, end), ptr |-> start]

\* Runtime::read_public_values_slice on the stream, its pointer and the
\* caller's buffer: what the buffer and the pointer are afterwards
ReadPublicValuesSlice(stream, ptr, dst) ==
    LET len == Len(dst)
        start == ptr
        end == start + len
    IN  IF ~(end <= Len(stream))
        THEN [panicked |-> TRUE, buf |-> dst, ptr |-> ptr]
        ELSE [panicked |-> FALSE, buf |-> SubSeq(stream, start + 1, end), ptr |-> end]

\* a Runtime whose program has written its public values; nothing read yet
InitIo ==
    /\ public_values_stream \in SeqsUpTo(Bytes, MaxStream)
    /\ public_values_stream_ptr = 0
    /\ buf = <<>>
    /\ io_call = [fn |-> "None"]
    /\ received = <<>>
    /\ overflow_checks = FALSE
    /\ PermutationIdle
    /\ MemIdle
    /\ GenIdle
    /\ PreIdle
    /\ FipIdle

\* the effect of one call with a buffer of n bytes; the caller keeps the
\* bytes of the calls that returned
IoCalled(fn, n, result) ==
    LET r == ReadPublicValuesSlice(public_values_stream, public_values_stream_ptr,
                                   [i \in 1 .. n |-> 0])
    IN  /\ public_values_stream_ptr' = r.ptr
        /\ buf' = r.buf
        /\ received' = IF r.panicked THEN received ELSE received \o r.buf
        /\ io_call' = [fn |-> fn, len |-> n, start |-> public_values_stream_ptr,
                       outcome |-> IF r.panicked THEN "panicked" ELSE "returned",
                       result |-> IF r.panicked THEN 0 ELSE result]
        /\ UNCHANGED <<permutation, overflow_checks, mem, gen, pre, fip,
                       public_values_stream>>

CallReadPublicValuesSlice(n) ==
    /\ n \in 0 .. MaxBuf
    /\ IoCalled("read_public_values_slice", n, 0)

\* <Runtime as Read>::read: Ok(buf.len())
Read(n) ==
    /\ n \in 0 .. MaxBuf
    /\ IoCalled("read", n, n)

NextIo ==
    \/ \E n \in 0 .. MaxBuf : CallReadPublicValuesSlice(n)
    \/ \E n \in 0 .. MaxBuf : Read(n)

SpecIo == InitIo /\ [][NextIo]_vars

\* ------------------------------------------------------- PrecompileEvents
\* events the two records hold together
MaxPreEvents == 3

\* SyscallCode: two codes that are not sent to a precompile table and two
\* that are
SyscallCodes == {"HALT", "WRITE", "SHA_EXTEND", "KECCAK_PERMUTE"}

\* SyscallCode::should_send
ShouldSend(syscall_code) ==
    IF syscall_code \in {"SHA_EXTEND", "KECCAK_PERMUTE"} THEN 1 ELSE 0

\* PrecompileEvent values
PrecompileEventPool == {"e1", "e2"}

\* the record a call is made on and the record it may be given
Records == {"self", "other"}

OtherOf(o) == IF o = "self" THEN "other" ELSE "self"

\* PrecompileEvents::default: an empty list for every code that is sent
PrecompileEventsDefault ==
    [syscall_code \in {c \in SyscallCodes : ShouldSend(c) = 1} |-> <<>>]

\* the list under a code, empty where the map has no such key
ListOf(events, syscall_code) ==
    IF syscall_code \in DOMAIN events THEN events[syscall_code] ELSE <<>>

\* faulty variant: the events are copied and other keeps them
PrecompileAppendCopy(self, other) ==
    [self |-> [c \in DOMAIN self \cup {k \in DOMAIN other : other[k] # <<>>} |->
                  ListOf(self, c) \o ListOf(other, c)],
     other |-> other]

\* PrecompileEvents::append: every non-empty list of other is moved to the
\* end of self's list for the code, which entry().or_default() creates if
\* self has none
PrecompileAppend(self, other) ==
    [self |-> [c \in DOMAIN self \cup {k \in DOMAIN other : other[k] # <<>>} |->
                  ListOf(self, c) \o ListOf(other, c)],
     other |-> [c \in DOMAIN other |-> <<>>]]

\* PrecompileEvents::add_event
PrecompileAddEvent(self, syscall_code, event) ==
    IF ~(ShouldSend(syscall_code) = 1) THEN [panicked |-> TRUE, events |-> self]
    ELSE [panicked |-> FALSE,
          events |-> [c \in DOMAIN self \cup {syscall_code} |->
                         IF c = syscall_code THEN Append(ListOf(self, c), event)
                         ELSE self[c]]]

\* PrecompileEvents::insert
Insert(self, syscall_code, events) ==
    IF ~(ShouldSend(syscall_code) = 1) THEN [panicked |-> TRUE, events |-> self]
    ELSE [panicked |-> FALSE,
          events |-> [c \in DOMAIN self \cup {syscall_code} |->
                         IF c = syscall_code THEN events ELSE self[c]]]

\* PrecompileEvents::get_events: the index panics on a missing key
GetEvents(self, syscall_code) ==
    IF ~(ShouldSend(syscall_code) = 1) \/ syscall_code \notin DOMAIN self
    THEN [panicked |-> TRUE, events |-> <<>>]
    ELSE [panicked |-> FALSE, events |-> self[syscall_code]]

RECURSIVE TotalOver(_, _)
TotalOver(events, codes) ==
    IF codes = {} THEN 0
    ELSE LET c == CHOOSE x \in codes : TRUE
         IN  Len(events[c]) + TotalOver(events, codes \ {c})

\* the number of events a record holds
Total(events) == TotalOver(events, DOMAIN events)

\* two records, both PrecompileEvents::default()
InitPre ==
    /\ precompile_events = [o \in Records |-> PrecompileEventsDefault]
    /\ pre_call = [fn |-> "None"]
    /\ overflow_checks = FALSE
    /\ PermutationIdle
    /\ MemIdle
    /\ GenIdle
    /\ IoIdle
    /\ FipIdle

Outcome(panicked) == IF panicked THEN "panicked" ELSE "returned"

CallAddEvent(o, syscall_code, event) ==
    /\ Total(precompile_events.self) + Total(precompile_events.other) < MaxPreEvents
    /\ LET r == PrecompileAddEvent(precompile_events[o], syscall_code, event)
       IN  /\ precompile_events' = [precompile_events EXCEPT ![o] = r.events]
           /\ pre_call' = [fn |-> "add_event", object |-> o, code |-> syscall_code,
                           outcome |-> Outcome(r.panicked), result |-> <<>>, moved |-> 0]
    /\ UNCHANGED <<permutation, overflow_checks, mem, gen, io, fip>>

CallInsert(o, syscall_code, events) ==
    /\ LET r == Insert(precompile_events[o], syscall_code, events)
       IN  /\ Total(r.events) + Total(precompile_events[OtherOf(o)]) <= MaxPreEvents
           /\ precompile_events' = [precompile_events EXCEPT ![o] = r.events]
           /\ pre_call' = [fn |-> "insert", object |-> o, code |-> syscall_code,
                           outcome |-> Outcome(r.panicked), result |-> <<>>, moved |-> 0]
    /\ UNCHANGED <<permutation, overflow_checks, mem, gen, io, fip>>

\* precompile_events[o].append(&mut the other record)
CallAppend(o) ==
    /\ LET r == PrecompileAppend(precompile_events[o], precompile_events[OtherOf(o)])
       IN  /\ precompile_events' =
                 [x \in Records |-> IF x = o THEN r.self ELSE r.other]
           /\ pre_call' = [fn |-> "append", object |-> o, code |-> "None",
                           outcome |-> "returned", result |-> <<>>,
                           moved |-> Total(precompile_events[OtherOf(o)])]
    /\ UNCHANGED <<permutation, overflow_checks, mem, gen, io, fip>>

CallGetEvents(o, syscall_code) ==
    /\ LET r == GetEvents(precompile_events[o], syscall_code)
       IN  pre_call' = [fn |-> "get_events", object |-> o, code |-> syscall_code,
                        outcome |-> Outcome(r.panicked), result |-> r.events, moved |-> 0]
    /\ UNCHANGED <<permutation, overflow_checks, mem, gen, io, fip, precompile_events>>

NextPre ==
    \/ \E o \in Records, c \in SyscallCodes, e \in PrecompileEventPool : CallAddEvent(o, c, e)
    \/ \E o \in Records, c \in SyscallCodes,
          es \in SeqsUpTo(PrecompileEventPool, MaxPreEvents) : CallInsert(o, c, es)
    \/ \E o \in Records : CallAppend(o)
    \/ \E o \in Records, c \in SyscallCodes : CallGetEvents(o, c)

SpecPre == InitPre /\ [][NextPre]_vars

\* -------------------------------------------------- FieldInnerProductCols
\* elements of an operand vector
MaxVec == 3

\* P::modulus(), a prime of two limbs
Modulus == 257

\* P::NB_LIMBS
NbLimbs == 2

\* P::to_limbs_field: the bytes of x, least significant first
ToLimbsField(x) == [i \in 1 .. NbLimbs |-> (x \div (256 ^ (i - 1))) % 256]

\* field elements: the least two and the greatest
Operands == {0, 1, Modulus - 1}

\* a.iter().zip(b.iter()).fold(0, |acc, (c, d)| acc + c * d)
RECURSIVE ZipFold(_, _, _)
ZipFold(x, y, n) ==
    IF n = 0 THEN 0 ELSE ZipFold(x, y, n - 1) + x[n] * y[n]

\* FieldInnerProductCols::populate, as far as result and carry; the witness
\* columns come from helpers outside this file and are left out
FieldInnerProductPopulate(self, x, y) ==
    LET inner_product == ZipFold(x, y, Min(Len(x), Len(y)))
        result == inner_product % Modulus
        carry == (inner_product - result) \div Modulus
    IN  IF ~(result < Modulus)
            \/ ~(carry < 2 * Modulus)
            \/ ~(carry * Modulus = inner_product - result)
        THEN [panicked |-> TRUE, cols |-> self, return |-> 0]
        ELSE [panicked |-> FALSE,
              cols |-> [result |-> ToLimbsField(result), carry |-> ToLimbsField(carry)],
              return |-> result]

\* zeroed columns and the operands of the call to come
InitFip ==
    /\ fip_a \in SeqsUpTo(Operands, MaxVec)
    /\ fip_b \in SeqsUpTo(Operands, MaxVec)
    /\ fip_cols = [result |-> ToLimbsField(0), carry |-> ToLimbsField(0)]
    /\ fip_pc = "call"
    /\ fip_return = 0
    /\ overflow_checks = FALSE
    /\ PermutationIdle
    /\ MemIdle
    /\ GenIdle
    /\ IoIdle
    /\ PreIdle

\* cols.populate(a, b)
CallFieldInnerProductPopulate ==
    /\ fip_pc = "call"
    /\ LET r == FieldInnerProductPopulate(fip_cols, fip_a, fip_b)
       IN  /\ fip_cols' = r.cols
           /\ fip_return' = r.return
           /\ fip_pc' = IF r.panicked THEN "panicked" ELSE "returned"
    /\ UNCHANGED <<permutation, overflow_checks, mem, gen, io, pre, fip_a, fip_b>>

NextFip == CallFieldInnerProductPopulate

SpecFip == InitFip /\ [][NextFip]_vars

\* ---------------------------------------------------------------- claims
CeilDiv(n, b) == (n + b - 1) \div b

RECURSIVE EPow(_, _)
EPow(x, e) == IF e = 0 THEN One ELSE EMul(x, EPow(x, e - 1))

Alpha == random_elements[1]
Beta == random_elements[2]

\* the i-th interaction of the concatenation sends-then-receives
InteractionAt(i) == IF i <= Len(sends) THEN sends[i] ELSE receives[i - Len(sends)]

Started == pc # "start"
Returned == pc \in {"done", "checked"}
RowsHeld == pc \in {"populate", "split", "scan", "write"}

\* alpha^(argument_index + shift) + sum over k of beta^k * v_k on row r
Fingerprint(i, r, shift) ==
    LET int == InteractionAt(i)
    IN  EAdd(EPow(Alpha, int.argument_index + shift),
             ESum([k \in 1 .. Len(int.values) |->
                      EScale(EPow(Beta, k - 1), Apply(int.values[k], PrepRowOf(r), main[r]))]))

\* C1: the trace has height H and width ceil((|sends|+|receives|)/b) + 1
C1_WidthIsCeil ==
    Started =>
        /\ Len(permutation_trace) = Height
        /\ \A r \in 1 .. Height :
              Len(permutation_trace[r]) = CeilDiv(NumInteractions, batch_size) + 1

\* signed_multiplicity / denominator of the i-th interaction on row r
Contribution(i, r) ==
    LET m == Apply(InteractionAt(i).multiplicity, PrepRowOf(r), main[r])
        q == EDiv(FromBase(m), denominators[r][i])
    IN  IF i <= Len(sends) THEN q ELSE ESub(Zero, q)

\* C2: after populate_permutation_row, cell j of the row holds the sum of
\* signed_multiplicity / denominator over the interactions (j-1)*b+1 .. j*b of
\* the concatenation sends-then-receives
C2_ChunkCells ==
    RowsHeld =>
        \A r \in populated : \A j \in 1 .. CeilDiv(NumInteractions, batch_size) :
            LET lo == (j - 1) * batch_size + 1
                hi == Min(j * batch_size, NumInteractions)
            IN  /\ j <= Len(permutation_trace[r])
                /\ permutation_trace[r][j] =
                      ESum([k \in 1 .. (hi - lo + 1) |-> Contribution(lo + k - 1, r)])

C2_Witness ==
    /\ pc = "split"
    /\ batch_size = 2
    /\ Len(sends) = 2
    /\ Len(receives) = 1
    /\ permutation_trace[1][1] # Zero

Scenario ==
    /\ sends = <<IA>>
    /\ receives = <<IA>>
    /\ batch_size = 1
    /\ Height = 1

ScenarioPopulated == Scenario /\ Started /\ Len(denominators[1]) = 2

\* C4 as stated: in the scenario both denominators are alpha0 + beta0 * 5
C4_ScenarioDenominatorAlphaPlusBetaTimes5 ==
    ScenarioPopulated =>
        \A i \in 1 .. 2 : denominators[1][i] = EAdd(Alpha, EScale(Beta, 5))

\* C4 amended: in the scenario both denominators are alpha0 + 5
C4_ScenarioDenominatorAlphaPlus5 ==
    ScenarioPopulated =>
        \A i \in 1 .. 2 : denominators[1][i] = EAdd(Alpha, FromBase(5))

C4_Witness == ScenarioPopulated /\ pc = "checked"

\* the sum of cells 0 .. W-2 of row r of the trace
CellSum(r) == ESum(SubSeq(permutation_trace[r], 1, Len(permutation_trace[r]) - 1))

LastCell(r) == permutation_trace[r][Len(permutation_trace[r])]

\* C5: in the returned trace the last cell of row 0 is the sum of the row's other
\* cells and the last cell of every later row is the last cell of the row before
\* plus the sum of the row's other cells
C5_InclusivePrefixSum ==
    Returned =>
        /\ LastCell(1) = CellSum(1)
        /\ \A r \in 2 .. Height : LastCell(r) = EAdd(LastCell(r - 1), CellSum(r))

C5_Witness ==
    /\ pc = "done"
    /\ Height = 3
    /\ CellSum(2) # Zero
    /\ LastCell(3) # LastCell(2)

\* C6: whatever the split of the rows, the scanned column is the left-to-right
\* accumulation of the row sums, and its last entry is the sum of all chunk
\* cells of all rows
C6_ScanIsSequential ==
    pc \in {"write", "done", "checked"} =>
        /\ Len(cumulative_sums) = Height
        /\ \A r \in 1 .. Height : cumulative_sums[r] = ESum(SubSeq(row_sums, 1, r))
        /\ cumulative_sums[Height] = ESum([r \in 1 .. Height |-> CellSum(r)])

C6_Witness ==
    /\ pc = "write"
    /\ Len(splits) = 2
    /\ Height = 3
    /\ row_sums[1] # Zero
    /\ cumulative_sums[3] # row_sums[3]

ArgumentIndices(ints) == {ints[i].argument_index : i \in 1 .. Len(ints)}

MaxOf(S) == CHOOSE m \in S : \A x \in S : x <= m

\* C7: for a non-empty interaction set the table is alpha^1 .. alpha^n,
\* n = max argument_index + 1
C7_TableIsPowers ==
    (Started /\ NumInteractions > 0) =>
        alphas = [k \in 1 .. (MaxOf(ArgumentIndices(sends \o receives)) + 1) |-> EPow(Alpha, k)]

C7_Witness ==
    /\ Started
    /\ ArgumentIndices(sends \o receives) = {0, 2}

\* the <<sends, receives>> of the other chips of the proof: send-only and
\* receive-only chips over the same pools
OtherChips ==
    (SeqsUpTo(SendPool, MaxSends) \X {<<>>}) \cup ({<<>>} \X SeqsUpTo(ReceivePool, MaxReceives))

\* C8: the element of channel i is the same in the table of every other chip
\* that declares channel i, and the evaluator looks up the element the builder
\* looked up
C8_SameElementAcrossChips ==
    pc = "checked" =>
        \A i \in ArgumentIndices(sends \o receives) :
            /\ eval_alphas[i + 1] = alphas[i + 1]
            /\ \A chip \in OtherChips :
                  i \in ArgumentIndices(chip[1] \o chip[2]) =>
                      GenerateInteractionRlcElements(chip[1], chip[2], Alpha)[i + 1] = alphas[i + 1]

C8_Witness ==
    /\ pc = "checked"
    /\ ArgumentIndices(sends \o receives) = {1}

\* C9: a trace is returned only if no interaction has a zero denominator on any
\* row; a row with a zero denominator is never populated and ends the generation
C9_ZeroDenominatorAborts ==
    /\ Returned =>
          \A r \in 1 .. Height : \A i \in 1 .. NumInteractions : Fingerprint(i, r, 1) # Zero
    /\ \A r \in 1 .. Len(denominators) :
          (\E i \in 1 .. Len(denominators[r]) : denominators[r][i] = Zero) =>
              (pc = "panicked" /\ r \notin populated)

C9_Witness ==
    /\ pc = "panicked"
    /\ \E r \in 1 .. Height : \E i \in 1 .. Len(denominators[r]) : denominators[r][i] = Zero

\* C10: on a generated trace every chunk identity of the evaluator holds
C10_ChunkIdentitiesHold ==
    pc = "checked" => \A f \in failed : f[1] # "chunk"

Evaluated == pc \in {"checked", "checked_tampered"}

PopulatedTerm(i, r) ==
    EDiv(FromBase(SignedMultiplicity(Tagged(sends, receives)[i], PrepRowOf(r), main[r])),
         denominators[r][i])

\* C13: on a row, the contributions of a send and of a receive of the same
\* interaction sum to zero; with only such a pair declared and one row the
\* cumulative sum of the returned trace is zero, for every batch size
C13_Cancellation ==
    /\ (RowsHeld \/ Returned) =>
          \A r \in populated : \A i \in 1 .. Len(sends) : \A j \in 1 .. Len(receives) :
              sends[i] = receives[j] =>
                  EAdd(PopulatedTerm(i, r), PopulatedTerm(Len(sends) + j, r)) = Zero
    /\ (Returned /\ Height = 1 /\ Len(sends) = 1 /\ receives = sends) => LastCell(1) = Zero

C13_Witness ==
    /\ pc = "done"
    /\ Height = 1
    /\ Len(sends) = 1
    /\ receives = sends
    /\ batch_size = 1
    /\ permutation_trace[1][1] # Zero

\* C14: in the scenario, with the generated trace kept, a change of one
\* multiplicity, of one value of a tuple or of one cell of the main row the
\* interactions read makes a chunk identity fail
C14_CorruptionDetected ==
    (pc = "checked_tampered" /\ tampered.scenario
        /\ tampered.kind \in {"multiplicity", "value", "main"}) =>
            \E f \in failed : f[1] = "chunk"

C14_Witness ==
    /\ pc = "checked_tampered"
    /\ tampered.scenario
    /\ tampered.kind = "value"
    /\ \E f \in failed : f[1] = "chunk"

\* the time value populate_access compares: the timestamp when the access and the
\* one before it are in the same shard, the shard otherwise
KeyCurrent(record) ==
    IF record.prev_shard = record.shard THEN record.timestamp ELSE record.shard

KeyPrevious(record) ==
    IF record.prev_shard = record.shard THEN record.prev_timestamp ELSE record.prev_shard

\* the columns the last call populated
CalledCols == mem_cols[mem_call.cols]

MemReturned == mem_call # NoCall /\ mem_pc = "ready"

\* C15: after populate_access, compare_clk = (previous.shard == current.shard),
\* and whenever key(previous) < key(current), with diff = key(current) -
\* key(previous) - 1, diff == diff_16bit_limb | (diff_8bit_limb << 16); a gap
\* of 1 gives both limbs 0 and diff = 2^24 - 1 gives limbs 0xFFFF and 0xFF
C15_CompareClkAndLimbs ==
    MemReturned =>
        LET record == mem_call.record
            access == CalledCols.access
            diff == KeyCurrent(record) - KeyPrevious(record) - 1
        IN  /\ access.compare_clk = (IF record.prev_shard = record.shard THEN 1 ELSE 0)
            /\ KeyPrevious(record) < KeyCurrent(record) =>
                  /\ diff = access.diff_16bit_limb + access.diff_8bit_limb * 65536
                  /\ diff = 0 => access.diff_16bit_limb = 0 /\ access.diff_8bit_limb = 0
                  /\ diff = 16777215 =>
                        access.diff_16bit_limb = 65535 /\ access.diff_8bit_limb = 255

\* C16: a call that returns appends to the buffer a U16Range event with the
\* low 16 bits of diff and then a U8Range event with bits 16-23 of diff, both
\* with the current record's shard, and keeps the events the buffer held
C16_TwoEventsAppended ==
    [][ mem_pc' = "ready" =>
            LET record == mem_call'.record
                diff == KeyCurrent(record) - KeyPrevious(record) - 1
            IN  new_blu_events' = new_blu_events \o
                    << [shard |-> record.shard, opcode |-> "U16Range",
                        a1 |-> diff % 65536, a2 |-> 0, b |-> 0, c |-> 0],
                       [shard |-> record.shard, opcode |-> "U8Range",
                        a1 |-> 0, a2 |-> 0, b |-> 0, c |-> (diff \div 65536) % 256] >> ]_vars

C16_Witness ==
    /\ MemReturned
    /\ mem_call.fn = "MemoryReadWriteCols::populate_read"
    /\ Len(new_blu_events) = 4
    /\ new_blu_events[3].a1 = 65535
    /\ new_blu_events[4].c = 255
    /\ new_blu_events[1].a1 = 0

\* C17: a call whose diff is outside [0, 2^24) (key(current) <= key(previous)
\* or key(current) - key(previous) - 1 >= 2^24) fails fatally
C17_OutOfRangeIsFatal ==
    (/\ mem_call # NoCall
     /\ \/ KeyCurrent(mem_call.record) <= KeyPrevious(mem_call.record)
        \/ KeyCurrent(mem_call.record) - KeyPrevious(mem_call.record) - 1 >= 16777216)
        => mem_pc = "panicked"

\* the u32 a Word holds
WordValue(w) == w[1] + 256 * w[2] + 65536 * w[3] + 16777216 * w[4]

IsWord(w) == Len(w) = 4 /\ \A i \in 1 .. 4 : w[i] \in 0 .. 255

IsWriteRecord(record) == "prev_value" \in DOMAIN record

\* C18: after a populate the value column holds record.value, prev_shard and
\* prev_clk hold the record's prev_shard and prev_timestamp, for a write
\* prev_value holds record.prev_value, and for a read through
\* MemoryReadWriteCols prev_value holds the read value
C18_ValueAndPrevColumns ==
    mem_call # NoCall =>
        LET record == mem_call.record
            cols == CalledCols
        IN  /\ IsWord(cols.access.value)
            /\ WordValue(cols.access.value) = record.value
            /\ cols.access.prev_shard = record.prev_shard
            /\ cols.access.prev_clk = record.prev_timestamp
            /\ IsWriteRecord(record) =>
                  IsWord(cols.prev_value) /\ WordValue(cols.prev_value) = record.prev_value
            /\ (~IsWriteRecord(record) /\ mem_call.cols = "read_write") =>
                  IsWord(cols.prev_value) /\ WordValue(cols.prev_value) = record.value

C18_Witness ==
    /\ mem_call # NoCall
    /\ mem_call.fn = "MemoryReadWriteCols::populate"
    /\ ~IsWriteRecord(mem_call.record)
    /\ mem_cols.read_write.prev_value = <<3, 2, 0, 0>>
    /\ mem_cols.write.prev_value = <<7, 0, 0, 0>>
    /\ mem_cols.write.access.value = <<4, 3, 2, 1>>

\* the two events of one memory access
AccessEvents(record) ==
    LET diff == KeyCurrent(record) - KeyPrevious(record) - 1
    IN  << [shard |-> record.shard, opcode |-> "U16Range",
            a1 |-> diff % 65536, a2 |-> 0, b |-> 0, c |-> 0],
           [shard |-> record.shard, opcode |-> "U8Range",
            a1 |-> 0, a2 |-> 0, b |-> 0, c |-> (diff \div 65536) % 256] >>

RECURSIVE RecordsEvents(_)
RecordsEvents(records) ==
    IF records = <<>> THEN <<>>
    ELSE AccessEvents(records[1]) \o RecordsEvents(Tail(records))

\* the events of the memory accesses of the first n real events of a curve
RECURSIVE RealEventsOf(_, _)
RealEventsOf(c, n) ==
    IF n = 0 THEN <<>>
    ELSE RealEventsOf(c, n - 1)
             \o RecordsEvents(input[c][n].q_memory_records)
             \o RecordsEvents(input[c][n].p_memory_records)

RECURSIVE AccessesOf(_, _)
AccessesOf(c, n) ==
    IF n = 0 THEN 0
    ELSE AccessesOf(c, n - 1) + Len(input[c][n].q_memory_records)
             + Len(input[c][n].p_memory_records)

\* the curves whose buffer has been merged into the output record
Merged ==
    {done[i] : i \in 1 .. Len(done)} \cup (IF gen_pc = "pad" THEN {curve} ELSE {})

RECURSIVE BagOfCurves(_)
BagOfCurves(S) ==
    IF S = {} THEN EmptyBag
    ELSE LET c == CHOOSE x \in S : TRUE
         IN  SeqToBag(RealEventsOf(c, Len(input[c]))) (+) BagOfCurves(S \ {c})

RECURSIVE AccessesOfCurves(_)
AccessesOfCurves(S) ==
    IF S = {} THEN 0
    ELSE LET c == CHOOSE x \in S : TRUE
         IN  AccessesOf(c, Len(input[c])) + AccessesOfCurves(S \ {c})

\* C19: while a chip's rows are populated its events are in its own buffer
\* and the output record holds those of the finished generations only; once
\* merged, the output record holds exactly two events for each memory access
\* of each real event, whatever the order of the merges, and padding adds none
C19_PrivateBufferThenMerge ==
    (gen_pc # "idle" \/ done # <<>>) =>
        /\ output = BagOfCurves(Merged)
        /\ BagCardinality(output) = 2 * AccessesOfCurves(Merged)
        /\ gen_pc = "loop" => new_byte_lookup_events = RealEventsOf(curve, Len(rows))
        /\ (gen_pc = "idle" /\ done # <<>>) =>
              LET last == done[Len(done)]
              IN  /\ Len(rows) >= Len(input[last])
                  /\ \A i \in 1 .. Len(rows) :
                        rows[i].is_real = (IF i <= Len(input[last]) THEN 1 ELSE 0)

C19_Witness ==
    /\ gen_pc = "idle"
    /\ done = <<"Bn254", "Secp256k1">>
    /\ Len(input["Secp256k1"]) = 2
    /\ Len(input["Bn254"]) = 1
    /\ Len(rows) = 3
    /\ BagCardinality(output) = 12
    /\ \E e \in BagToSet(output) : CopiesIn(e, output) > 1

\* the row sequential processing leaves for row r: the zeroed row populated
\* from the row's own preprocessed and main data
SequentialRow(r) ==
    PopulatePermutationRow(
        [j \in 1 .. PermutationTraceWidth(sends, receives, batch_size) |-> Zero],
        IF preprocessed = None THEN <<>> ELSE preprocessed[r], main[r],
        sends, receives, alphas, random_elements[2], batch_size)

\* C20: in whatever order the rows are populated, a populated row holds the
\* chunk cells sequential processing gives it, and a row not yet populated is
\* untouched
C20_RowsIndependent ==
    /\ pc \in {"populate", "panicked"} =>
          \A r \in 1 .. Height :
              permutation_trace[r] =
                  IF r \in populated THEN SequentialRow(r)
                  ELSE [j \in 1 .. PermutationTraceWidth(sends, receives, batch_size) |-> Zero]
    /\ (RowsHeld \/ Returned) =>
          \A r \in populated : \A j \in 1 .. Len(permutation_trace[r]) - 1 :
              permutation_trace[r][j] = SequentialRow(r)[j]

C20_Witness ==
    /\ pc = "populate"
    /\ Height = 3
    /\ populated = {3}
    /\ preprocessed # None
    /\ UsesPrep(sends \o receives)
    /\ permutation_trace[3][1] # Zero

\* the number of chunks of sends + receives does not match the allocated row
\* width minus one
ConfigurationError ==
    CeilDiv(NumInteractions, batch_size) #
        PermutationTraceWidth(sends, receives, batch_size) - 1

\* C21: with a configuration error, trace generation is aborted before any
\* row has been processed
C21_ConfigurationErrorAborts ==
    (Started /\ ConfigurationError) => (pc = "panicked" /\ populated = {})

\* the sum of the contributions of the interactions of chunk j on row r
ChunkOf(j, r) ==
    ESum([k \in 1 .. (Min(j * batch_size, NumInteractions) - (j - 1) * batch_size) |->
             Contribution((j - 1) * batch_size + k, r)])

RECURSIVE RunningSum(_)
RunningSum(r) ==
    IF r = 0 THEN Zero
    ELSE EAdd(RunningSum(r - 1),
              ESum([j \in 1 .. CeilDiv(NumInteractions, batch_size) |-> ChunkOf(j, r)]))

\* C22: in every row of the returned trace the number of chunks is W - 1, cell
\* j < W - 1 holds chunk j and the last cell holds the cumulative sum of every
\* chunk up to the row
C22_EveryChunkHasItsCell ==
    Returned =>
        \A r \in 1 .. Height :
            LET width == Len(permutation_trace[r])
            IN  /\ CeilDiv(NumInteractions, batch_size) = width - 1
                /\ \A j \in 1 .. width - 1 : permutation_trace[r][j] = ChunkOf(j, r)
                /\ permutation_trace[r][width] = RunningSum(r)

\* C23: the lookup alphas[argument_index] of every declared interaction is
\* inside the table, in the trace builder and in the evaluator, gaps in the
\* declared argument indices included
C23_LookupInBounds ==
    /\ Started =>
          \A i \in 1 .. NumInteractions :
              InteractionAt(i).argument_index \in 0 .. Len(alphas) - 1
    /\ Evaluated =>
          \A i \in 1 .. NumInteractions :
              InteractionAt(i).argument_index \in 0 .. Len(eval_alphas) - 1

C23_Witness ==
    /\ pc = "checked"
    /\ ArgumentIndices(sends \o receives) = {0, 2}
    /\ Len(eval_alphas) = 3
    /\ populated = 1 .. Height

\* C24: the pointer never exceeds the stream's length; a call with a buffer of
\* n bytes that fit copies the n bytes at the pointer and advances it by n, so
\* the reads together are the stream's prefix up to the pointer, and read
\* reports n; a call that would pass the end fails and leaves pointer and
\* stream as they were
C24_ReadsAreConsecutiveSlices ==
    /\ [](/\ public_values_stream_ptr <= Len(public_values_stream)
          /\ received = SubSeq(public_values_stream, 1, public_values_stream_ptr))
    /\ [][ io_call'.fn # "None" =>
             LET n == io_call'.len
                 start == public_values_stream_ptr
             IN  /\ public_values_stream' = public_values_stream
                 /\ IF start + n <= Len(public_values_stream)
                    THEN /\ io_call'.outcome = "returned"
                         /\ buf' = [i \in 1 .. n |-> public_values_stream[start + i]]
                         /\ public_values_stream_ptr' = start + n
                         /\ io_call'.fn = "read" => io_call'.result = n
                    ELSE /\ io_call'.outcome = "panicked"
                         /\ public_values_stream_ptr' = start ]_vars

C24_Witness ==
    /\ io_call.fn = "read"
    /\ io_call.outcome = "returned"
    /\ io_call.start = 1
    /\ io_call.len = 2
    /\ public_values_stream = <<7, 200, 7>>
    /\ public_values_stream_ptr = 3
    /\ buf = <<200, 7>>
    /\ received = <<7, 200, 7>>

SentCodes == {c \in SyscallCodes : ShouldSend(c) = 1}

\* C25: append moves every event of other to the end of self's list for the
\* same code, leaves other's lists empty and keeps the number of events of
\* the two records together; in every state reached from Default by
\* add_event, insert and append the keys of a record are the codes with
\* should_send() == 1, and get_events succeeds for each of them
C25_AppendMovesEvents ==
    /\ [](/\ \A o \in Records : DOMAIN precompile_events[o] = SentCodes
          /\ (pre_call.fn = "get_events" /\ pre_call.code \in SentCodes) =>
                /\ pre_call.outcome = "returned"
                /\ pre_call.result = precompile_events[pre_call.object][pre_call.code])
    /\ [][ pre_call'.fn = "append" =>
             LET s == pre_call'.object
                 o == OtherOf(s)
             IN  /\ \A c \in SyscallCodes :
                       /\ ListOf(precompile_events'[s], c) =
                             ListOf(precompile_events[s], c) \o ListOf(precompile_events[o], c)
                       /\ ListOf(precompile_events'[o], c) = <<>>
                 /\ Total(precompile_events'[s]) + Total(precompile_events'[o]) =
                       Total(precompile_events[s]) + Total(precompile_events[o]) ]_vars

C25_Witness ==
    /\ pre_call.fn = "append"
    /\ pre_call.object = "self"
    /\ pre_call.moved = 2
    /\ precompile_events.self["SHA_EXTEND"] = <<"e1", "e2", "e1">>
    /\ precompile_events.self["KECCAK_PERMUTE"] = <<>>
    /\ Total(precompile_events.other) = 0

\* the integer a vector of byte limbs holds
RECURSIVE FromLimbs(_)
FromLimbs(limbs) ==
    IF limbs = <<>> THEN 0 ELSE Head(limbs) + 256 * FromLimbs(Tail(limbs))

RECURSIVE SumOfProducts(_, _)
SumOfProducts(x, y) ==
    IF x = <<>> THEN 0 ELSE Head(x) * Head(y) + SumOfProducts(Tail(x), Tail(y))

\* C26: for operand vectors of equal length with elements below p, populate
\* returns result = (sum of a_i * b_i) mod p with result < p, the carry
\* column satisfies carry * p + result = sum of a_i * b_i, and the
\* assertion carry < 2 * p holds
C26_PopulateReturnsInnerProduct ==
    (fip_pc \in {"returned", "panicked"} /\ Len(fip_a) = Len(fip_b)) =>
        /\ fip_pc = "returned"
        /\ fip_return = SumOfProducts(fip_a, fip_b) % Modulus
        /\ fip_return < Modulus
        /\ FromLimbs(fip_cols.result) = fip_return
        /\ FromLimbs(fip_cols.carry) * Modulus + fip_return = SumOfProducts(fip_a, fip_b)
        /\ FromLimbs(fip_cols.carry) < 2 * Modulus

====
